---- MODULE Spec2Model ----
(***************************************************************************)
(* Model of scripts/docker/download-docker-image.py: the image assembler   *)
(* download_image, the platform helper get_platform and the command-line   *)
(* driver (single-image and batch mode).                                   *)
(*                                                                         *)
(* Text is modelled as a sequence of tokens: a token is either a separator *)
(* character ("/", "_", ":", "#", " ") or a word that contains none of     *)
(* them.  Concatenation is \o, so f"{a}_{b}" is  a \o <<"_">> \o b.        *)
(* The registry and the local filesystem are the environment: the outcome  *)
(* of every request and of every filesystem call is chosen                 *)
(* nondeterministically when the call is made.                             *)
(***************************************************************************)
EXTENDS Integers, Sequences, FiniteSets, TLC

(***************************************************************************)
(* Bounds of the model.                                                    *)
(***************************************************************************)
MaxLines == 2
MaxLayers == 2
MaxEntries == 2
MaxImages == 2

(***************************************************************************)
(* Python values.                                                          *)
(***************************************************************************)
\* Python's None, where a text is expected: a token no text contains.
None == << "<None>" >>

\* `tok in s` for a separator or word tok
Contains(s, tok) == \E i \in 1..Len(s) : s[i] = tok

\* s.replace(a, b) for single tokens a, b
Replace(s, a, b) == [i \in 1..Len(s) |-> IF s[i] = a THEN b ELSE s[i]]

RECURSIVE LStrip(_)
LStrip(s) == IF s # <<>> /\ Head(s) = " " THEN LStrip(Tail(s)) ELSE s

RECURSIVE RStrip(_)
RStrip(s) == IF s # <<>> /\ s[Len(s)] = " " THEN RStrip(SubSeq(s, 1, Len(s) - 1)) ELSE s

\* s.strip()
Strip(s) == RStrip(LStrip(s))

\* s.startswith(tok)
StartsWith(s, tok) == s # <<>> /\ Head(s) = tok

\* position of the last tok in s, 0 when there is none
RECURSIVE LastIndexOf(_, _)
LastIndexOf(s, tok) ==
  IF s = <<>> THEN 0
  ELSE IF s[Len(s)] = tok THEN Len(s)
  ELSE LastIndexOf(SubSeq(s, 1, Len(s) - 1), tok)

\* s.split(tok): the sequence of the parts between the separators
RECURSIVE Split(_, _)
Split(s, tok) ==
  LET k == LastIndexOf(s, tok) IN
  IF k = 0 THEN << s >>
  ELSE Append(Split(SubSeq(s, 1, k - 1), tok), SubSeq(s, k + 1, Len(s)))

\* all sequences over S of length at most n
SeqsUpTo(S, n) == UNION {[1..k -> S] : k \in 0..n}

(***************************************************************************)
(* Inputs: command lines, batch file lines, hosts.                         *)
(***************************************************************************)
\* sys.argv[1:]; each argument is a text
Argvs ==
  { <<>>,
    << <<"batch">>, <<"list.txt">> >>,
    << <<"redis">> >>,
    << <<"myorg", "/", "app">>, <<"v1">> >> }

\* the lines a batch file may hold (without the line end)
Lines ==
  { <<"redis">>,
    <<" ", "nonexistent", "/", "image", ":", "latest", " ">>,
    <<" ", "#", "redis">>,
    <<>> }

\* what platform.machine() may report on the host
Machines == {"x86_64", "AMD64", "aarch64", "xarm64", "riscv64"}

\* the hosts the script is run on
MainMachines == {"x86_64", "aarch64"}

\* str.lower() on the machine strings
Lower(m) == IF m = "AMD64" THEN "amd64" ELSE m

\* arguments of a direct call download_image(image_name, tag, target_platform)
CallNames == { <<"ubuntu">>, <<"alpine">>, <<"myorg", "/", "app">> }
CallTags == { <<"latest">> }
TargetPlatforms == { None, <<"linux", "/", "arm64">>, <<"linux", "/", "riscv64">>, <<"arm64">> }

(***************************************************************************)
(* The registry's documents.                                               *)
(***************************************************************************)
MT_DockerManifest == <<"application/vnd.docker.distribution.", "manifest", ".v2+json">>
MT_DockerList == <<"application/vnd.docker.distribution.", "manifest.list", ".v2+json">>
MT_OciManifest == <<"application/vnd.oci.image.", "manifest", ".v1+json">>
MT_OciIndex == <<"application/vnd.oci.image.", "index", ".v1+json">>

\* the Accept header of the manifest requests
AcceptTypes == <<MT_DockerManifest, MT_DockerList, MT_OciManifest, MT_OciIndex>>

\* the repositories the registry holds; a manifest request for any other
\* repository is answered with a not-found status
Repositories ==
  { <<"library", "/", "redis">>, <<"library", "/", "ubuntu">>, <<"myorg", "/", "app">> }

ConfigDigest == "sha256:cfg"

\* digest of the layer blob number i of the registry
LayerDigest(i) == "sha256:l" \o ToString(i)

\* the layer sequences of the registry's images: blobs 1..n in this order, and
\* the longest one also in the opposite order
LayerSeqs ==
  {[i \in 1..n |-> LayerDigest(i)] : n \in 0..MaxLayers}
    \cup {[i \in 1..MaxLayers |-> LayerDigest(MaxLayers + 1 - i)]}

\* entries of an index: platform fields are texts, or None when the entry has
\* no "platform" object
IndexEntries ==
  { [os |-> <<"linux">>, architecture |-> <<"amd64">>, digest |-> "sha256:m-amd64"],
    [os |-> <<"linux">>, architecture |-> <<"amd64">>, digest |-> "sha256:m-amd64-v3"],
    [os |-> <<"linux">>, architecture |-> <<"arm64">>, digest |-> "sha256:m-arm64"],
    [os |-> <<"windows">>, architecture |-> <<"arm64">>, digest |-> "sha256:m-win"],
    [os |-> None, architecture |-> None, digest |-> "sha256:m-att"] }

NoEntry == [os |-> None, architecture |-> None, digest |-> ""]

\* an Image-variant manifest; config "" when no config object is declared
ImageManifests ==
  { [mediaType |-> mt, manifests |-> <<>>, config |-> c, layers |-> ls] :
      mt \in {MT_DockerManifest},
      c \in {"", ConfigDigest},
      ls \in LayerSeqs }

\* an Index-variant manifest; no entry is listed twice
IndexManifests ==
  { [mediaType |-> mt, manifests |-> es, config |-> "", layers |-> <<>>] :
      mt \in {MT_DockerList, MT_OciIndex},
      es \in {s \in SeqsUpTo(IndexEntries, MaxEntries) :
                 \A i, j \in 1..Len(s) : s[i] = s[j] => i = j} }

Manifests == ImageManifests \cup IndexManifests

\* what the registry may hold at an index entry's digest: an image, or again
\* an index
PlatformManifests ==
  ImageManifests \cup
    { [mediaType |-> MT_OciIndex, config |-> "", layers |-> <<>>,
       manifests |-> << [os |-> <<"linux">>, architecture |-> <<"arm64">>,
                         digest |-> "sha256:m-arm64"] >>] }

NoManifest == [mediaType |-> <<>>, manifests |-> <<>>, config |-> "", layers |-> <<>>]

(***************************************************************************)
(* Pure parts of the program.                                              *)
(***************************************************************************)
\* a variant of lines 11-17 whose fallback is arm64
get_platform_arm_fallback(machine) ==
  LET m == Lower(machine) IN
  IF m \in {"amd64", "x86_64"} THEN << <<"linux">>, <<"amd64">> >>
  ELSE IF m \in {"aarch64", "xarm64"} THEN << <<"linux">>, <<"arm64">> >>
  ELSE << <<"linux">>, <<"arm64">> >>

\* get_platform(), lines 11-17
get_platform(machine) ==
  LET m == Lower(machine) IN
  IF m \in {"amd64", "x86_64"} THEN << <<"linux">>, <<"amd64">> >>
  ELSE IF m \in {"aarch64", "xarm64"} THEN << <<"linux">>, <<"arm64">> >>
  ELSE << <<"linux">>, <<"amd64">> >>

official_images == { <<"postgres">>, <<"redis">>, <<"mysql">>, <<"nginx">>, <<"ubuntu">> }

\* a variant of lines 21-24 that treats every name without '/' as official
normalize_every_bare_name(name) ==
  IF ~Contains(name, "/")
  THEN <<"library", "/">> \o name
  ELSE name

\* lines 21-24: the image name download_image works with
normalize(name) ==
  IF ~Contains(name, "/") /\ name \in official_images
  THEN <<"library", "/">> \o name
  ELSE name

\* line 71: the media type names an index
IsIndexType(media_type) ==
  Contains(media_type, "index") \/ Contains(media_type, "manifest.list")

\* a variant of line 78 that compares the architecture alone
PlatformMatchesArchOnly(m, os, ar) == m.architecture = ar

\* line 78: the entry's platform matches both fields
PlatformMatches(m, os, ar) == m.os = os /\ m.architecture = ar

\* lines 74-80: position of the entry the scan stops at, 0 when it ends
\* without a match
RECURSIVE ScanFrom(_, _, _, _)
ScanFrom(ms, i, os, ar) ==
  IF i > Len(ms) THEN 0
  ELSE IF PlatformMatches(ms[i], os, ar) THEN i
  ELSE ScanFrom(ms, i + 1, os, ar)

\* a variant of lines 74-84 that falls back to the first entry when the scan
\* finds none
selectManifestBestEffort(ms, os, ar) ==
  IF ScanFrom(ms, 1, os, ar) = 0 /\ ms # <<>> THEN 1 ELSE ScanFrom(ms, 1, os, ar)

\* lines 73-80: the selection among the entries of an index
selectManifest(ms, os, ar) == ScanFrom(ms, 1, os, ar)

\* line 99
temp_dir_name(name, t, ar) ==
  Replace(name, "/", "_") \o <<"_">> \o t \o <<"_">> \o ar \o <<"_temp">>

\* line 100: os.path.join(images_base_dir, temp_dir_name)
output_dir_of(name, t, ar) == <<"images", "/">> \o temp_dir_name(name, t, ar)

\* lines 168-170
tar_filename_of(name, t, ar) ==
  <<"images", "/">> \o Replace(name, "/", "_") \o <<"_">> \o t \o <<"_">> \o ar \o <<".tar">>

\* line 134
layer_filename(i) == "layer-" \o ToString(i) \o ".tar.gz"

\* a variant of lines 154-156 that lists the layer files last to first
podman_manifest_reversed(name, t, files) ==
  [kind |-> "json", Config |-> "config.json",
   RepoTags |-> << name \o <<":">> \o t >>,
   Layers |-> [i \in 1..Len(files) |-> files[Len(files) + 1 - i]]]

\* lines 154-156: the layout manifest
podman_manifest(name, t, files) ==
  [kind |-> "json", Config |-> "config.json",
   RepoTags |-> << name \o <<":">> \o t >>, Layers |-> files]

\* what a file holds after a transfer
BlobBytes(d) == [kind |-> "blob", digest |-> d]
PartialBytes(d) == [kind |-> "partial", digest |-> d]
ErrorBody(d) == [kind |-> "errorbody", digest |-> d]
Truncated == [kind |-> "truncated", digest |-> ""]

\* lines 202-205: name and tag of a batch line
ParseLine(line) ==
  LET k == LastIndexOf(line, ":") IN
  IF k > 0 THEN << SubSeq(line, 1, k - 1), SubSeq(line, k + 1, Len(line)) >>
  ELSE << line, <<"latest">> >>

\* line 201: the line names an image
IsEntry(line) == Strip(line) # <<>> /\ ~StartsWith(Strip(line), "#")

(***************************************************************************)
(* State.                                                                  *)
(***************************************************************************)
VARIABLES
  pc,             \* position of the process
  entry,          \* "main": the script is run; "call": download_image is called directly
  argv,           \* sys.argv[1:]
  call_args,      \* arguments of the direct call
  machine,        \* platform.machine() of the host
  batch_exists,   \* os.path.exists(batch_file)
  batch,          \* the lines of the batch file read so far
  at_eof,         \* the batch loop has read the file to its end
  failed,         \* the batch loop's list of failed entries
  exit_code,      \* exit status of the process, -1 while it runs
  image_name,     \* download_image: image_name / repo after lines 21-27
  tag,            \* download_image: tag
  os_name,        \* download_image: os_name
  arch,           \* download_image: arch
  token,          \* download_image: a bearer token was obtained
  manifest,       \* download_image: the working manifest
  target_manifest,\* download_image: the index entry selected (NoEntry: none)
  idx,            \* download_image: position of the layer loop
  layer_files,    \* download_image: layer_files
  result,         \* how the invocation ended: "none", "True", "False", "raised"
  dirs,           \* filesystem: scratch directory path -> (file name -> content)
  tars,           \* filesystem: archive path -> content
  reqs,           \* observation: the requests the current invocation issued
  wrote,          \* observation: what the current invocation created or opened for
                  \* writing: "." (the scratch directory), file names, "archive"
  calls           \* observation: the invocations made so far and how they ended

driver_vars == <<entry, argv, call_args, machine, batch_exists, batch, at_eof, failed, exit_code>>
local_vars == <<image_name, tag, os_name, arch, token, manifest, target_manifest, idx, layer_files>>
fs_vars == <<dirs, tars>>
vars == <<pc, driver_vars, local_vars, result, fs_vars, reqs, wrote, calls>>

\* a map without the key k
Without(f, k) == [x \in DOMAIN f \ {k} |-> f[x]]

\* the map f with f[k] = v
With(f, k, v) == [x \in DOMAIN f \cup {k} |-> IF x = k THEN v ELSE f[x]]

EmptyMap == [x \in {} |-> 0]

\* the timeout= argument of the requests.get calls, in seconds; the config
\* blob request of lines 108-110 passes none
TokenTimeout == 30
ManifestTimeout == 30
PlatformTimeout == 30
LayerTimeout == 300
NoTimeout == 0

\* a request as observed: its kind, the repository in its URL, the reference
\* (tag or digest) asked for, whether it succeeded, and its timeout
Req(kind, ref, ok, timeout) ==
  [kind |-> kind, repo |-> image_name, ref |-> ref, ok |-> ok, timeout |-> timeout]

(***************************************************************************)
(* Initial states: the script started with some command line, or a direct  *)
(* call of download_image; nothing under images/ yet.                      *)
(***************************************************************************)
Init ==
  /\ pc = "start"
  /\ \/ /\ entry = "main"
        /\ argv \in Argvs
        /\ call_args = << <<>>, <<>>, None >>
        /\ batch_exists \in (IF argv # <<>> /\ argv[1] = <<"batch">> THEN BOOLEAN ELSE {FALSE})
        /\ machine \in MainMachines
     \/ /\ entry = "call"
        /\ argv = <<>>
        /\ call_args \in {<<n, t, p>> : n \in CallNames, t \in CallTags, p \in TargetPlatforms}
        /\ batch_exists = FALSE
        /\ machine \in Machines
  /\ batch = <<>>
  /\ at_eof = FALSE
  /\ failed = <<>>
  /\ exit_code = -1
  /\ image_name = <<>>
  /\ tag = <<>>
  /\ os_name = <<>>
  /\ arch = <<>>
  /\ token = FALSE
  /\ manifest = NoManifest
  /\ target_manifest = NoEntry
  /\ idx = 0
  /\ layer_files = <<>>
  /\ result = "none"
  /\ dirs = EmptyMap
  /\ tars = EmptyMap
  /\ reqs = <<>>
  /\ wrote = {}
  /\ calls = <<>>

(***************************************************************************)
(* download_image                                                          *)
(***************************************************************************)
\* The invocation ends with outcome r ("True", "False": returned; "raised": an
\* exception leaves download_image).
Return(r) ==
  /\ pc' = "returned"
  /\ result' = r
  /\ calls' = [calls EXCEPT ![Len(calls)].outcome = r]

\* lines 20-34: entry of download_image(name, t, target_platform)
Enter(name, t, target_platform) ==
  LET parts == Split(target_platform, "/")
      plat == IF target_platform # None /\ target_platform # <<>>
              THEN parts ELSE get_platform(machine)
  IN
  /\ image_name' = normalize(name)
  /\ tag' = t
  /\ token' = FALSE
  /\ manifest' = NoManifest
  /\ target_manifest' = NoEntry
  /\ idx' = 0
  /\ layer_files' = <<>>
  /\ reqs' = <<>>
  /\ wrote' = {}
  /\ IF Len(plat) = 2
     THEN /\ os_name' = plat[1]
          /\ arch' = plat[2]
          /\ pc' = "token"
          /\ result' = "none"
          /\ calls' = Append(calls, [name |-> name, tag |-> t, outcome |-> "running"])
     ELSE \* line 30: the unpacking raises ValueError
          /\ os_name' = <<>>
          /\ arch' = <<>>
          /\ pc' = "returned"
          /\ result' = "raised"
          /\ calls' = Append(calls, [name |-> name, tag |-> t, outcome |-> "raised"])

\* lines 36-43: the token request
GetToken ==
  /\ pc = "token"
  /\ \E ok \in BOOLEAN :
       /\ reqs' = Append(reqs, Req("token", image_name, ok, TokenTimeout))
       /\ IF ok
          THEN /\ token' = TRUE
               /\ pc' = "manifest"
               /\ UNCHANGED <<result, calls>>
          ELSE /\ Return("False")
               /\ UNCHANGED token
  /\ UNCHANGED <<driver_vars, image_name, tag, os_name, arch, manifest, target_manifest,
                 idx, layer_files, fs_vars, wrote>>

\* lines 57-66: the manifest request for the tag
FetchManifest ==
  /\ pc = "manifest"
  /\ \/ \E m \in Manifests :
          /\ image_name \in Repositories
          /\ reqs' = Append(reqs, Req("manifest", tag, TRUE, ManifestTimeout))
          /\ manifest' = m
          /\ pc' = "resolve"
          /\ UNCHANGED <<result, calls>>
     \/ /\ reqs' = Append(reqs, Req("manifest", tag, FALSE, ManifestTimeout))
        /\ Return("False")
        /\ UNCHANGED manifest
  /\ UNCHANGED <<driver_vars, image_name, tag, os_name, arch, token, target_manifest,
                 idx, layer_files, fs_vars, wrote>>

\* a variant of lines 68-84 that has the scratch directory made beforehand
ResolveInScratch ==
  /\ pc = "resolve"
  /\ IF IsIndexType(manifest.mediaType)
     THEN LET k == selectManifest(manifest.manifests, os_name, arch) IN
          IF k = 0
          THEN /\ Return("False")
               /\ UNCHANGED target_manifest
          ELSE /\ target_manifest' = manifest.manifests[k]
               /\ pc' = "platform"
               /\ UNCHANGED <<result, calls>>
     ELSE /\ pc' = "makedirs"
          /\ UNCHANGED <<result, calls, target_manifest>>
  /\ dirs' = IF output_dir_of(image_name, tag, arch) \in DOMAIN dirs THEN dirs
             ELSE With(dirs, output_dir_of(image_name, tag, arch), EmptyMap)
  /\ UNCHANGED <<driver_vars, image_name, tag, os_name, arch, token, manifest,
                 idx, layer_files, tars, reqs, wrote>>

\* lines 68-84: an index is resolved to the entry of the platform
Resolve ==
  /\ pc = "resolve"
  /\ IF IsIndexType(manifest.mediaType)
     THEN LET k == selectManifest(manifest.manifests, os_name, arch) IN
          IF k = 0
          THEN /\ Return("False")
               /\ UNCHANGED target_manifest
          ELSE /\ target_manifest' = manifest.manifests[k]
               /\ pc' = "platform"
               /\ UNCHANGED <<result, calls>>
     ELSE /\ pc' = "makedirs"
          /\ UNCHANGED <<result, calls, target_manifest>>
  /\ UNCHANGED <<driver_vars, image_name, tag, os_name, arch, token, manifest,
                 idx, layer_files, fs_vars, reqs, wrote>>

\* a variant of lines 86-87 that asks for the tag again
platform_ref_tag(t, m) == t

\* lines 86-87: the reference of the second manifest request
platform_ref(t, m) == << m.digest >>

\* lines 86-92: the manifest request for the selected digest; not inside a try
FetchPlatformManifest ==
  /\ pc = "platform"
  /\ \/ \E m \in PlatformManifests :
          /\ reqs' = Append(reqs, Req("manifest", platform_ref(tag, target_manifest), TRUE, PlatformTimeout))
          /\ manifest' = m
          /\ pc' = "makedirs"
          /\ UNCHANGED <<result, calls>>
     \/ /\ reqs' = Append(reqs, Req("manifest", platform_ref(tag, target_manifest), FALSE, PlatformTimeout))
        /\ Return("raised")
        /\ UNCHANGED manifest
  /\ UNCHANGED <<driver_vars, image_name, tag, os_name, arch, token, target_manifest,
                 idx, layer_files, fs_vars, wrote>>

\* lines 94-101: images/ and the scratch directory, exist_ok=True
MakeDirs ==
  /\ pc = "makedirs"
  /\ LET output_dir == output_dir_of(image_name, tag, arch) IN
     \/ /\ dirs' = IF output_dir \in DOMAIN dirs THEN dirs ELSE With(dirs, output_dir, EmptyMap)
        /\ wrote' = wrote \cup {"."}
        /\ pc' = "config"
        /\ UNCHANGED <<result, calls>>
     \/ \* os.makedirs fails
        /\ Return("raised")
        /\ UNCHANGED <<dirs, wrote>>
  /\ UNCHANGED <<driver_vars, local_vars, tars, reqs>>

\* a variant of the loop of line 121 that stops before the last layer
AfterLayersButLast(m, i) == IF i >= Len(m.layers) THEN "write_manifest" ELSE "layers"

\* position after the config step or after layer i - 1: the loop of line 121
\* goes on while a layer is left
AfterLayers(m, i) == IF i > Len(m.layers) THEN "write_manifest" ELSE "layers"

\* lines 103-115: the config blob; no raise_for_status, not inside a try
FetchConfig ==
  /\ pc = "config"
  /\ LET output_dir == output_dir_of(image_name, tag, arch) IN
     IF manifest.config = ""
     THEN /\ pc' = AfterLayers(manifest, 1)
          /\ idx' = 1
          /\ UNCHANGED <<result, calls, dirs, reqs, wrote>>
     ELSE \/ \* the endpoint is unreachable: requests.get raises
             /\ reqs' = Append(reqs, Req("blob", <<manifest.config>>, FALSE, NoTimeout))
             /\ Return("raised")
             /\ UNCHANGED <<idx, dirs, wrote>>
          \/ \* the registry accepts the connection and never answers: the call
             \* ends with an exception when its timeout passes, and never
             \* without one
             /\ reqs' = Append(reqs, Req("blob", <<manifest.config>>, FALSE, NoTimeout))
             /\ IF NoTimeout > 0
                THEN Return("raised")
                ELSE /\ pc' = "blocked"
                     /\ UNCHANGED <<result, calls>>
             /\ UNCHANGED <<idx, dirs, wrote>>
          \/ \E status_ok \in BOOLEAN :
               /\ reqs' = Append(reqs, Req("blob", <<manifest.config>>, status_ok, NoTimeout))
               /\ \/ \* open() fails
                     /\ Return("raised")
                     /\ UNCHANGED <<idx, dirs, wrote>>
                  \/ \* the transfer or a write breaks midway
                     /\ dirs' = [dirs EXCEPT ![output_dir] =
                                   With(@, "config.json", PartialBytes(manifest.config))]
                     /\ wrote' = wrote \cup {"config.json"}
                     /\ Return("raised")
                     /\ UNCHANGED idx
                  \/ \* the body is written, whatever the status
                     /\ dirs' = [dirs EXCEPT ![output_dir] =
                                   With(@, "config.json",
                                        IF status_ok THEN BlobBytes(manifest.config)
                                        ELSE ErrorBody(manifest.config))]
                     /\ wrote' = wrote \cup {"config.json"}
                     /\ pc' = AfterLayers(manifest, 1)
                     /\ idx' = 1
                     /\ UNCHANGED <<result, calls>>
  /\ UNCHANGED <<driver_vars, image_name, tag, os_name, arch, token, manifest,
                 target_manifest, layer_files, tars>>

\* a variant of lines 149-151 that goes on with the next layer
LayerSkipped ==
  /\ pc' = AfterLayers(manifest, idx + 1)
  /\ idx' = idx + 1
  /\ UNCHANGED <<layer_files, result, calls>>

\* lines 149-151: the except clause of the layer loop
LayerFailed ==
  /\ Return("False")
  /\ UNCHANGED <<idx, layer_files>>

\* lines 121-151: one round of the layer loop; every failure is caught and
\* returns False
FetchLayer ==
  /\ pc = "layers"
  /\ LET output_dir == output_dir_of(image_name, tag, arch)
         layer_digest == manifest.layers[idx]
         file == layer_filename(idx)
     IN
     \/ \* the request fails: unreachable, or raise_for_status
        /\ reqs' = Append(reqs, Req("blob", <<layer_digest>>, FALSE, LayerTimeout))
        /\ LayerFailed
        /\ UNCHANGED <<dirs, wrote>>
     \/ \* open() fails
        /\ reqs' = Append(reqs, Req("blob", <<layer_digest>>, TRUE, LayerTimeout))
        /\ LayerFailed
        /\ UNCHANGED <<dirs, wrote>>
     \/ \* the transfer (net_ok false) or a write (net_ok true) breaks midway
        \E net_ok \in BOOLEAN :
          /\ reqs' = Append(reqs, Req("blob", <<layer_digest>>, net_ok, LayerTimeout))
          /\ dirs' = [dirs EXCEPT ![output_dir] = With(@, file, PartialBytes(layer_digest))]
          /\ wrote' = wrote \cup {file}
          /\ LayerFailed
     \/ \* the layer is saved
        /\ reqs' = Append(reqs, Req("blob", <<layer_digest>>, TRUE, LayerTimeout))
        /\ dirs' = [dirs EXCEPT ![output_dir] = With(@, file, BlobBytes(layer_digest))]
        /\ wrote' = wrote \cup {file}
        /\ layer_files' = Append(layer_files, file)
        /\ idx' = idx + 1
        /\ pc' = AfterLayers(manifest, idx + 1)
        /\ UNCHANGED <<result, calls>>
  /\ UNCHANGED <<driver_vars, image_name, tag, os_name, arch, token, manifest,
                 target_manifest, tars>>

\* lines 153-160: manifest.json; not inside a try
WriteManifest ==
  /\ pc = "write_manifest"
  /\ LET output_dir == output_dir_of(image_name, tag, arch) IN
     \/ \* open() fails
        /\ Return("raised")
        /\ UNCHANGED <<dirs, wrote>>
     \/ \* json.dump fails after the file was opened
        /\ dirs' = [dirs EXCEPT ![output_dir] = With(@, "manifest.json", Truncated)]
        /\ wrote' = wrote \cup {"manifest.json"}
        /\ Return("raised")
     \/ /\ dirs' = [dirs EXCEPT ![output_dir] =
                      With(@, "manifest.json", podman_manifest(image_name, tag, layer_files))]
        /\ wrote' = wrote \cup {"manifest.json"}
        /\ pc' = "archive"
        /\ UNCHANGED <<result, calls>>
  /\ UNCHANGED <<driver_vars, local_vars, tars, reqs>>

\* lines 165-176: the archive of the scratch directory; not inside a try
Archive ==
  /\ pc = "archive"
  /\ LET output_dir == output_dir_of(image_name, tag, arch)
         tar_filename == tar_filename_of(image_name, tag, arch)
     IN
     \/ \* tarfile.open fails
        /\ Return("raised")
        /\ UNCHANGED <<tars, wrote>>
     \/ \* tar.add fails after the archive was opened for writing
        /\ tars' = With(tars, tar_filename, [complete |-> FALSE, files |-> EmptyMap])
        /\ wrote' = wrote \cup {"archive"}
        /\ Return("raised")
     \/ /\ tars' = With(tars, tar_filename, [complete |-> TRUE, files |-> dirs[output_dir]])
        /\ wrote' = wrote \cup {"archive"}
        /\ pc' = "cleanup"
        /\ UNCHANGED <<result, calls>>
  /\ UNCHANGED <<driver_vars, local_vars, dirs, reqs>>

\* a variant of line 180 that leaves the directory in place
RmtreeKeeps(ds, path) == ds

\* the filesystem after shutil.rmtree(path)
Rmtree(ds, path) == Without(ds, path)

\* lines 178-182: the scratch directory is removed and True returned
Cleanup ==
  /\ pc = "cleanup"
  /\ LET output_dir == output_dir_of(image_name, tag, arch) IN
     \/ \* rmtree fails
        /\ Return("raised")
        /\ UNCHANGED dirs
     \/ /\ dirs' = Rmtree(dirs, output_dir)
        /\ Return("True")
  /\ UNCHANGED <<driver_vars, local_vars, tars, reqs, wrote>>

(***************************************************************************)
(* The callers of download_image.                                          *)
(***************************************************************************)
\* the locals of a finished invocation are gone
ForgetLocals ==
  /\ image_name' = <<>>
  /\ tag' = <<>>
  /\ os_name' = <<>>
  /\ arch' = <<>>
  /\ token' = FALSE
  /\ manifest' = NoManifest
  /\ target_manifest' = NoEntry
  /\ idx' = 0
  /\ layer_files' = <<>>
  /\ reqs' = <<>>
  /\ wrote' = {}
  /\ result' = "none"

\* lines 185-195 and 213-216: the script starts
Main ==
  /\ pc = "start"
  /\ entry = "main"
  /\ IF argv = <<>>
     THEN \* usage
          /\ pc' = "exit"
          /\ exit_code' = 1
          /\ UNCHANGED <<local_vars, result, reqs, wrote, calls>>
     ELSE IF argv[1] = <<"batch">>
     THEN IF ~batch_exists
          THEN /\ pc' = "exit"
               /\ exit_code' = 1
               /\ UNCHANGED <<local_vars, result, reqs, wrote, calls>>
          ELSE /\ pc' = "batch_loop"
               /\ UNCHANGED <<exit_code, local_vars, result, reqs, wrote, calls>>
     ELSE /\ Enter(argv[1], IF Len(argv) > 1 THEN argv[2] ELSE <<"latest">>, None)
          /\ UNCHANGED exit_code
  /\ UNCHANGED <<entry, argv, call_args, machine, batch_exists, batch, at_eof, failed, fs_vars>>

\* download_image called directly, with an optional target platform
Call ==
  /\ pc = "start"
  /\ entry = "call"
  /\ Enter(call_args[1], call_args[2], call_args[3])
  /\ UNCHANGED <<driver_vars, fs_vars>>

\* lines 199-206: the batch loop reads the next line
BatchLine ==
  /\ pc = "batch_loop"
  /\ Len(batch) < MaxLines
  /\ \E line \in Lines :
       /\ batch' = Append(batch, line)
       /\ IF IsEntry(line)
          THEN LET nt == ParseLine(Strip(line)) IN Enter(nt[1], nt[2], None)
          ELSE UNCHANGED <<pc, local_vars, result, reqs, wrote, calls>>
  /\ UNCHANGED <<entry, argv, call_args, machine, batch_exists, at_eof, failed, exit_code, fs_vars>>

\* lines 206-207: download_image came back into the batch loop; an exception
\* ends the process
BatchReturn ==
  /\ pc = "returned"
  /\ entry = "main"
  /\ argv[1] = <<"batch">>
  /\ LET nt == ParseLine(Strip(batch[Len(batch)])) IN
     IF result = "raised"
     THEN /\ pc' = "exit"
          /\ exit_code' = 1
          /\ UNCHANGED failed
     ELSE /\ pc' = "batch_loop"
          /\ failed' = IF result = "False"
                       THEN Append(failed, nt[1] \o <<":">> \o nt[2]) ELSE failed
          /\ UNCHANGED exit_code
  /\ ForgetLocals
  /\ UNCHANGED <<entry, argv, call_args, machine, batch_exists, batch, at_eof, fs_vars, calls>>

\* lines 209-212: the batch file is read to its end
BatchEnd ==
  /\ pc = "batch_loop"
  /\ pc' = "exit"
  /\ at_eof' = TRUE
  /\ exit_code' = IF failed # <<>> THEN 1 ELSE 0
  /\ UNCHANGED <<entry, argv, call_args, machine, batch_exists, batch, failed,
                 local_vars, result, fs_vars, reqs, wrote, calls>>

\* lines 216-217: single-image mode
SingleReturn ==
  /\ pc = "returned"
  /\ entry = "main"
  /\ argv[1] # <<"batch">>
  /\ pc' = "exit"
  /\ exit_code' = IF result = "True" THEN 0 ELSE 1
  /\ ForgetLocals
  /\ UNCHANGED <<entry, argv, call_args, machine, batch_exists, batch, at_eof, failed, fs_vars, calls>>

\* the direct call is over
CallReturn ==
  /\ pc = "returned"
  /\ entry = "call"
  /\ pc' = "exit"
  /\ ForgetLocals
  /\ UNCHANGED <<driver_vars, fs_vars, calls>>

Next ==
  \/ Main
  \/ Call
  \/ BatchLine
  \/ BatchReturn
  \/ BatchEnd
  \/ SingleReturn
  \/ CallReturn
  \/ GetToken
  \/ FetchManifest
  \/ Resolve
  \/ FetchPlatformManifest
  \/ MakeDirs
  \/ FetchConfig
  \/ FetchLayer
  \/ WriteManifest
  \/ Archive
  \/ Cleanup

Spec == Init /\ [][Next]_vars

(***************************************************************************)
(* The naming of scratch directories and archives (lines 98-100 and        *)
(* 167-170) on its own: download_image called for one image after another, *)
(* each call making its scratch directory and its archive, every request   *)
(* served.                                                                 *)
(***************************************************************************)
\* repositories, tags and architectures of the images asked for
PathRepos == { <<"a">>, <<"a", "_", "b">>, <<"a", "/", "b">> }
PathTags == { <<"c">>, <<"b", "_", "c">> }
PathArchs == { <<"amd64">>, <<"arm64">> }

PathInit ==
  /\ pc = "start"
  /\ entry = "call"
  /\ argv = <<>>
  /\ call_args = << <<>>, <<>>, None >>
  /\ batch_exists = FALSE
  /\ machine = "x86_64"
  /\ batch = <<>>
  /\ at_eof = FALSE
  /\ failed = <<>>
  /\ exit_code = -1
  /\ image_name = <<>>
  /\ tag = <<>>
  /\ os_name = <<>>
  /\ arch = <<>>
  /\ token = FALSE
  /\ manifest = NoManifest
  /\ target_manifest = NoEntry
  /\ idx = 0
  /\ layer_files = <<>>
  /\ result = "none"
  /\ dirs = EmptyMap
  /\ tars = EmptyMap
  /\ reqs = <<>>
  /\ wrote = {}
  /\ calls = <<>>

\* lines 94-101 of a call for (repo, t, ar): the scratch directory is made
PathMakeDirs ==
  /\ pc = "start"
  /\ Len(calls) < MaxImages
  /\ \E repo \in PathRepos, t \in PathTags, ar \in PathArchs :
       /\ image_name' = repo
       /\ tag' = t
       /\ os_name' = <<"linux">>
       /\ arch' = ar
       /\ calls' = Append(calls, [name |-> repo, tag |-> t, arch |-> ar, outcome |-> "running"])
       /\ dirs' = IF output_dir_of(repo, t, ar) \in DOMAIN dirs THEN dirs
                  ELSE With(dirs, output_dir_of(repo, t, ar), EmptyMap)
  /\ wrote' = {"."}
  /\ pc' = "archive"
  /\ UNCHANGED <<driver_vars, token, manifest, target_manifest, idx, layer_files,
                 result, tars, reqs>>

\* lines 153-182 of the same call: manifest.json, the archive, the cleanup
PathArchive ==
  /\ pc = "archive"
  /\ LET output_dir == output_dir_of(image_name, tag, arch)
         tar_filename == tar_filename_of(image_name, tag, arch)
     IN
     /\ tars' = With(tars, tar_filename,
                     [complete |-> TRUE,
                      files |-> With(dirs[output_dir], "manifest.json",
                                     podman_manifest(image_name, tag, <<>>))])
     /\ dirs' = Rmtree(dirs, output_dir)
  /\ calls' = [calls EXCEPT ![Len(calls)].outcome = "True"]
  /\ wrote' = {}
  /\ pc' = "start"
  /\ UNCHANGED <<driver_vars, local_vars, result, reqs>>

PathNext ==
  \/ PathMakeDirs
  \/ PathArchive

PathSpec == PathInit /\ [][PathNext]_vars

(***************************************************************************)
(* Vocabulary of the properties, written from the specification's terms.   *)
(***************************************************************************)
Returned == pc = "returned"

BatchMode == entry = "main" /\ argv # <<>> /\ argv[1] = <<"batch">>

SingleMode == entry = "main" /\ argv # <<>> /\ argv[1] # <<"batch">>

\* the arguments of the invocation under way
Invoked == calls[Len(calls)]

\* the repository the specification expects for a user-supplied name
ExpectedRepository(name) ==
  IF name \in { <<"postgres">>, <<"redis">>, <<"mysql">>, <<"nginx">>, <<"ubuntu">> }
  THEN <<"library", "/">> \o name
  ELSE name

Underscored(s) == [i \in 1..Len(s) |-> IF s[i] = "/" THEN "_" ELSE s[i]]

\* images/<repository with '/' replaced by '_'>_<tag>_<architecture>.tar
ExpectedArchive(name, t, ar) ==
  <<"images", "/">> \o Underscored(ExpectedRepository(name))
     \o <<"_">> \o t \o <<"_">> \o ar \o <<".tar">>

\* images/<repository with '/' replaced by '_'>_<tag>_<architecture>_temp
ExpectedScratch(name, t, ar) ==
  <<"images", "/">> \o Underscored(ExpectedRepository(name))
     \o <<"_">> \o t \o <<"_">> \o ar \o <<"_temp">>

\* an invocation of download_image is under way or has just ended
InInvocation == pc \notin {"start", "batch_loop", "exit"}

\* the platform the caller asked for, None when it asked for none
ExplicitPlatform == IF entry = "call" THEN call_args[3] ELSE None

\* layer-<i>.tar.gz
ExpectedLayerFile(i) == "layer-" \o ToString(i) \o ".tar.gz"

ScratchDir == output_dir_of(image_name, tag, arch)

ManifestReqs == SelectSeq(reqs, LAMBDA r : r.kind = "manifest")

BlobReqs == SelectSeq(reqs, LAMBDA r : r.kind = "blob")

\* the blob requests other than the one for the config blob
LayerReqs == SelectSeq(reqs, LAMBDA r : r.kind = "blob" /\ r.ref # <<manifest.config>>)

IndexTypes == {MT_DockerList, MT_OciIndex}

\* entry e is for the platform the invocation resolved
ForTarget(e) == e.os = os_name /\ e.architecture = arch

\* the entry lines of the batch file, in file order
EntryLines == SelectSeq(batch, LAMBDA l : Strip(l) # <<>> /\ Head(Strip(l)) # "#")

\* name:tag of the invocations that did not end in success, in order
NotSucceeded ==
  LET bad == SelectSeq(calls, LAMBDA c : c.outcome # "True") IN
  [i \in 1..Len(bad) |-> bad[i].name \o <<":">> \o bad[i].tag]

(***************************************************************************)
(* C1.  After an invocation of download_image ends, on every exit path,    *)
(* the scratch directory it made no longer exists.                         *)
(* Stated as the claim has it; the layer loop's return at line 151 and the *)
(* exceptions of lines 88-114, 159-160 and 173-174 leave it in place.      *)
(***************************************************************************)
C1_ScratchNeverOutlivesInvocation ==
  (Returned /\ "." \in wrote) => ScratchDir \notin DOMAIN dirs

(***************************************************************************)
(* C2.  Once a network step of an invocation has failed, the invocation   *)
(* does not end in success and writes no complete archive.                 *)
(* Stated as the claim has it; a non-success status of the config blob     *)
(* request is not looked at (lines 108-114).                               *)
(***************************************************************************)
C2_NoErrorSwallowed ==
  (\E i \in 1..Len(reqs) : ~reqs[i].ok)
    => /\ result # "True"
       /\ ~ ( /\ "archive" \in wrote
              /\ tar_filename_of(image_name, tag, arch) \in DOMAIN tars
              /\ tars[tar_filename_of(image_name, tag, arch)].complete )

(***************************************************************************)
(* C3.  In batch mode the process ends only after the batch file was read  *)
(* to its end, with one invocation per entry line, in file order, whatever *)
(* failed.                                                                 *)
(* Stated as the claim has it; an exception leaving download_image ends    *)
(* the loop.                                                               *)
(***************************************************************************)
C3_BatchContinuesAfterFailure ==
  (BatchMode /\ batch_exists /\ pc = "exit")
    => /\ at_eof
       /\ Len(calls) = Len(EntryLines)
       /\ \A i \in 1..Len(calls) :
            <<calls[i].name, calls[i].tag>> = ParseLine(Strip(EntryLines[i]))

(***************************************************************************)
(* C4.  The exit status reflects the outcome: in batch mode the failed     *)
(* list names exactly the entries whose assembly did not succeed, in       *)
(* order, and the exit code is 0 iff it is empty; in single-image mode the *)
(* exit code is 0 iff the assembly succeeded; a missing batch file gives a *)
(* non-zero exit code and no invocation.                                   *)
(* Stated as the claim has it; an entry whose invocation raises is never   *)
(* put on the failed list.                                                 *)
(***************************************************************************)
C4_ExitStatusReflectsOutcome ==
  (entry = "main" /\ pc = "exit" /\ argv # <<>>)
    => /\ (BatchMode /\ batch_exists)
            => (failed = NotSucceeded /\ (exit_code = 0 <=> failed = <<>>))
       /\ (BatchMode /\ ~batch_exists) => (exit_code # 0 /\ calls = <<>>)
       /\ SingleMode
            => (Len(calls) = 1 /\ (exit_code = 0 <=> calls[1].outcome = "True"))

(***************************************************************************)
(* C5.  For a manifest with a config blob and N layers, a successful       *)
(* assembly leaves an archive whose manifest.json lists layer-1.tar.gz ..  *)
(* layer-N.tar.gz, the i-th file holding the blob of the i-th layer        *)
(* digest, and whose RepoTags is the one label <repository>:<tag>.         *)
(***************************************************************************)
C5_LayoutManifestRoundTrip ==
  (Returned /\ result = "True" /\ manifest.config # "")
    => LET N == Len(manifest.layers)
           tar_filename == tar_filename_of(image_name, tag, arch)
       IN
       /\ tar_filename \in DOMAIN tars
       /\ tars[tar_filename].complete
       /\ "manifest.json" \in DOMAIN tars[tar_filename].files
       /\ LET files == tars[tar_filename].files
              layout == files["manifest.json"]
          IN
          /\ layout.Layers = [i \in 1..N |-> ExpectedLayerFile(i)]
          /\ \A i \in 1..N :
               /\ ExpectedLayerFile(i) \in DOMAIN files
               /\ files[ExpectedLayerFile(i)] = [kind |-> "blob", digest |-> manifest.layers[i]]
          /\ layout.RepoTags = << ExpectedRepository(Invoked.name) \o <<":">> \o Invoked.tag >>

C5_Witness ==
  /\ Returned
  /\ result = "True"
  /\ manifest.config # ""
  /\ Len(manifest.layers) >= 2
  /\ Invoked.name = <<"redis">>

(***************************************************************************)
(* C6.  Whenever download_image returns success, the scratch directory of  *)
(* the image does not exist and the archive                                *)
(* images/<repository with '/' as '_'>_<tag>_<architecture>.tar does.      *)
(***************************************************************************)
C6_SuccessLeavesArchiveOnly ==
  (Returned /\ result = "True")
    => /\ ScratchDir \notin DOMAIN dirs
       /\ ExpectedArchive(Invoked.name, Invoked.tag, arch) \in DOMAIN tars
       /\ tars[ExpectedArchive(Invoked.name, Invoked.tag, arch)].complete

C6_Witness ==
  /\ Returned
  /\ result = "True"
  /\ Invoked.name = <<"myorg", "/", "app">>
  /\ "." \in wrote

(***************************************************************************)
(* C7.  If the manifest fetched for the tag is an index and no entry is    *)
(* for the resolved platform, download_image returns failure at once: no   *)
(* second manifest request and no blob request is issued.                  *)
(***************************************************************************)
C7_NoPlatformFailsWithoutFetch ==
  [][ ( /\ pc = "resolve"
        /\ manifest.mediaType \in IndexTypes
        /\ \A k \in 1..Len(manifest.manifests) : ~ForTarget(manifest.manifests[k]) )
      => (pc' = "returned" /\ result' = "False" /\ reqs' = reqs) ]_vars

C7_Witness ==
  /\ Returned
  /\ result = "False"
  /\ manifest.mediaType \in IndexTypes
  /\ Len(manifest.manifests) = 2
  /\ \A k \in 1..2 : ~ForTarget(manifest.manifests[k])
  /\ Len(ManifestReqs) = 1
  /\ ManifestReqs[1].ok
  /\ BlobReqs = <<>>

(***************************************************************************)
(* C8.  Once an entry of an index was selected and the second manifest     *)
(* request was made, the manifest requests of the invocation are exactly   *)
(* two, the tag and the selected entry's digest, and every layer blob      *)
(* requested is the layer of the working manifest at that position.        *)
(***************************************************************************)
C8_OnlySelectedManifestLayers ==
  (target_manifest # NoEntry /\ pc # "platform")
    => /\ Len(ManifestReqs) = 2
       /\ ManifestReqs[1].ref = tag
       /\ ManifestReqs[2].ref = << target_manifest.digest >>
       /\ Len(LayerReqs) <= Len(manifest.layers)
       /\ \A i \in 1..Len(LayerReqs) : LayerReqs[i].ref = << manifest.layers[i] >>

C8_Witness ==
  /\ Returned
  /\ result = "True"
  /\ target_manifest.digest = "sha256:m-arm64"
  /\ Len(LayerReqs) = 2

(***************************************************************************)
(* C9.  If the download of a layer fails, the invocation is over with      *)
(* failure: no later layer is requested, and the invocation writes neither *)
(* manifest.json nor an archive.                                           *)
(***************************************************************************)
C9_LayerFailureAborts ==
  (Len(LayerReqs) > Len(layer_files))
    => /\ Returned
       /\ result = "False"
       /\ Len(LayerReqs) = Len(layer_files) + 1
       /\ "manifest.json" \notin wrote
       /\ "archive" \notin wrote

C9_Witness ==
  /\ Returned
  /\ result = "False"
  /\ Len(manifest.layers) = 2
  /\ layer_files = <<>>
  /\ Len(LayerReqs) = 1

(***************************************************************************)
(* C10.  The selection takes the first entry, in the index's order, whose  *)
(* os and architecture both equal the target's, and finds none exactly     *)
(* when no entry matches both.                                             *)
(***************************************************************************)
C10_FirstExactMatch ==
  /\ pc = "platform"
       => \E k \in 1..Len(manifest.manifests) :
            /\ manifest.manifests[k] = target_manifest
            /\ ForTarget(manifest.manifests[k])
            /\ \A j \in 1..(k - 1) : ~ForTarget(manifest.manifests[j])
  /\ (Returned /\ manifest.mediaType \in IndexTypes /\ Len(ManifestReqs) = 1)
       => /\ target_manifest = NoEntry
          /\ \A k \in 1..Len(manifest.manifests) : ~ForTarget(manifest.manifests[k])

C10_Witness ==
  /\ pc = "platform"
  /\ Len(manifest.manifests) = 2
  /\ target_manifest = manifest.manifests[2]
  /\ manifest.manifests[1].os = os_name
  /\ manifest.manifests[1].architecture # arch

(***************************************************************************)
(* C11.  For a name of the known-official set the repository of every      *)
(* request, of RepoTags and of the scratch directory and archive names is  *)
(* library/<name>; for a name with '/' or outside the set it is the name   *)
(* as given.                                                               *)
(***************************************************************************)
C11_NameNormalization ==
  (InInvocation /\ os_name # <<>>)
    => LET repo == ExpectedRepository(Invoked.name)
           scratch == ExpectedScratch(Invoked.name, Invoked.tag, arch)
           archive == ExpectedArchive(Invoked.name, Invoked.tag, arch)
       IN
       /\ image_name = repo
       /\ \A i \in 1..Len(reqs) : reqs[i].repo = repo
       /\ (pc \in {"config", "layers", "write_manifest", "archive", "cleanup"})
            => scratch \in DOMAIN dirs
       /\ pc \in {"archive", "cleanup"}
            => dirs[scratch]["manifest.json"].RepoTags
                 = << repo \o <<":">> \o Invoked.tag >>
       /\ "archive" \in wrote
            => /\ archive \in DOMAIN tars
               /\ tars[archive].complete
                    => tars[archive].files["manifest.json"].RepoTags
                         = << repo \o <<":">> \o Invoked.tag >>

C11_Witness ==
  /\ pc = "cleanup"
  /\ Invoked.name = <<"ubuntu">>
  /\ image_name = <<"library", "/", "ubuntu">>
  /\ Len(reqs) >= 3

(***************************************************************************)
(* C12.  Without an explicit platform the host machine strings x86_64 and  *)
(* amd64 resolve to (linux, amd64), aarch64 and xarm64 to (linux, arm64),  *)
(* every other string to (linux, amd64); an explicit os/architecture       *)
(* string gives its two parts verbatim, whatever the host.                 *)
(***************************************************************************)
C12_PlatformResolution ==
  (InInvocation /\ os_name # <<>>)
    => IF ExplicitPlatform = None
       THEN /\ Lower(machine) \in {"x86_64", "amd64"}
                 => (os_name = <<"linux">> /\ arch = <<"amd64">>)
            /\ Lower(machine) \in {"aarch64", "xarm64"}
                 => (os_name = <<"linux">> /\ arch = <<"arm64">>)
            /\ Lower(machine) \notin {"x86_64", "amd64", "aarch64", "xarm64"}
                 => (os_name = <<"linux">> /\ arch = <<"amd64">>)
       ELSE ExplicitPlatform = os_name \o <<"/">> \o arch

C12_Witness ==
  /\ pc = "token"
  /\ machine = "aarch64"
  /\ ExplicitPlatform = <<"linux", "/", "riscv64">>
  /\ arch = <<"riscv64">>

(***************************************************************************)
(* C13.  While the scratch layout is populated or archived the working     *)
(* manifest is an image manifest, never an index, also when the document   *)
(* fetched at the selected entry's digest is itself an index.              *)
(* Stated as the claim has it; the document of lines 88-92 is taken as the *)
(* working manifest without a look at its media type.                      *)
(***************************************************************************)
C13_IndexResolvedBeforeAssembly ==
  (pc \in {"config", "layers", "write_manifest", "archive", "cleanup"})
    => /\ manifest.mediaType \notin IndexTypes
       /\ ~IsIndexType(manifest.mediaType)

(***************************************************************************)
(* C14.  The scratch directory is empty when an invocation starts to       *)
(* populate it, whatever earlier invocations did, and the archive of a     *)
(* successful assembly holds exactly config.json (when a config is         *)
(* declared), layer-1.tar.gz .. layer-N.tar.gz and manifest.json.          *)
(* Stated as the claim has it; line 101 accepts an existing directory and  *)
(* a failed invocation leaves its files behind (C1).                       *)
(***************************************************************************)
C14_ScratchFreshPerInvocation ==
  /\ pc = "config" => dirs[ScratchDir] = EmptyMap
  /\ pc = "cleanup"
       => DOMAIN tars[tar_filename_of(image_name, tag, arch)].files
            = (IF manifest.config # "" THEN {"config.json"} ELSE {})
                \cup {ExpectedLayerFile(i) : i \in 1..Len(manifest.layers)}
                \cup {"manifest.json"}

(***************************************************************************)
(* C15.  Every network call of an invocation carries a bounded timeout,    *)
(* and no invocation is left waiting forever for a registry that does not  *)
(* answer.                                                                 *)
(* Stated as the claim has it; the config blob request of lines 108-110    *)
(* passes no timeout.                                                      *)
(***************************************************************************)
C15_EveryCallBounded ==
  /\ \A i \in 1..Len(reqs) : reqs[i].timeout > 0
  /\ pc # "blocked"

(***************************************************************************)
(* C16.  Within one invocation the token endpoint, each manifest reference *)
(* and each blob is requested at most once, and a failed request is the    *)
(* last request of its invocation, which is then over.                     *)
(* Stated as the claim has it; after a non-success status of the config    *)
(* blob request the layer requests follow (C2).                            *)
(***************************************************************************)
C16_NoRetryFirstFailureEnds ==
  /\ \A i, j \in 1..Len(reqs) :
       (reqs[i].kind = reqs[j].kind /\ reqs[i].ref = reqs[j].ref) => i = j
  /\ \A i \in 1..Len(reqs) :
       ~reqs[i].ok => (i = Len(reqs) /\ pc \in {"returned", "blocked"})

(***************************************************************************)
(* C17.  The steps of one image run in the order token, tag manifest,      *)
(* per-platform manifest, config blob, layers in manifest order,           *)
(* manifest.json, archive, cleanup: no manifest or blob request without a  *)
(* token obtained first, no manifest request after a blob request, the     *)
(* archive only after every layer and manifest.json were written, success  *)
(* only after the archive; and in a batch every earlier invocation has     *)
(* ended before a step of the next one.                                    *)
(***************************************************************************)
C17_FixedStepOrder ==
  LET blobs == BlobReqs
      layers == LayerReqs
  IN
  /\ \A i \in 1..Len(reqs) : (reqs[i].kind = "token") <=> (i = 1)
  /\ Len(reqs) > 1 => (reqs[1].ok /\ token)
  /\ \A i \in 1..(Len(reqs) - 1) :
       reqs[i].kind = "blob" => reqs[i + 1].kind = "blob"
  /\ blobs # <<>>
       => /\ pc \notin {"token", "manifest", "resolve", "platform", "makedirs"}
          /\ "." \in wrote
  /\ \A i \in 2..Len(blobs) : blobs[i].ref # <<manifest.config>>
  /\ Len(layers) <= Len(manifest.layers)
  /\ \A i \in 1..Len(layers) : layers[i].ref = <<manifest.layers[i]>>
  /\ "manifest.json" \in wrote
       => /\ Len(layer_files) = Len(manifest.layers)
          /\ Len(layers) = Len(manifest.layers)
          /\ manifest.config # "" => "config.json" \in wrote
  /\ "archive" \in wrote => "manifest.json" \in wrote
  /\ pc = "cleanup" => "archive" \in wrote
  /\ (Returned /\ result = "True") => "archive" \in wrote
  /\ \A k \in 1..(Len(calls) - 1) : calls[k].outcome # "running"
  /\ pc = "batch_loop" => \A k \in 1..Len(calls) : calls[k].outcome # "running"

C17_Witness ==
  /\ BatchMode
  /\ Len(calls) = 2
  /\ calls[1].outcome = "False"
  /\ pc = "cleanup"
  /\ target_manifest # NoEntry
  /\ manifest.config # ""
  /\ Len(manifest.layers) = 2
  /\ Len(reqs) = 6

(***************************************************************************)
(* C18.  Two distinct (repository, tag, architecture) triples have         *)
(* distinct scratch directory paths and distinct archive names, so calls   *)
(* for different images never share a scratch directory or an archive.     *)
(* Stated as the claim has it; '/' becomes '_' and the parts are joined by *)
(* '_', which repositories and tags may contain themselves.                *)
(***************************************************************************)
C18_NamesUniquePerImage ==
  \A i, j \in 1..Len(calls) :
    (<<calls[i].name, calls[i].tag, calls[i].arch>>
       # <<calls[j].name, calls[j].tag, calls[j].arch>>)
      => /\ output_dir_of(calls[i].name, calls[i].tag, calls[i].arch)
              # output_dir_of(calls[j].name, calls[j].tag, calls[j].arch)
         /\ tar_filename_of(calls[i].name, calls[i].tag, calls[i].arch)
              # tar_filename_of(calls[j].name, calls[j].tag, calls[j].arch)

(***************************************************************************)
(* C19.  In every archive produced, the file named by manifest.json's      *)
(* Config field and every file named in its Layers field is in the         *)
(* archived layout, also when the source manifest declares no config blob. *)
(* Stated as the claim has it; line 155 names config.json whether or not   *)
(* lines 104-114 wrote it.                                                 *)
(***************************************************************************)
C19_NamedFilesExist ==
  \A p \in DOMAIN tars :
    tars[p].complete
      => LET files == tars[p].files
             m == files["manifest.json"]
         IN
         /\ m.Config \in DOMAIN files
         /\ \A i \in 1..Len(m.Layers) : m.Layers[i] \in DOMAIN files

(***************************************************************************)
(* C20.  No step of an invocation up to and including the platform         *)
(* selection touches the filesystem: an invocation that fails at the       *)
(* token, at the tag manifest or at the selection has made no scratch      *)
(* directory and has left every archive, also one of an earlier successful *)
(* run, as it was.                                                         *)
(***************************************************************************)
C20_EarlyFailureLeavesFilesystem ==
  [][ (pc \in {"start", "batch_loop", "token", "manifest", "resolve"})
        => (dirs' = dirs /\ tars' = tars /\ "." \notin wrote') ]_vars

C20_Witness ==
  /\ Returned
  /\ result = "False"
  /\ BatchMode
  /\ Len(calls) = 2
  /\ calls[1].outcome = "True"
  /\ calls[1].name = Invoked.name
  /\ Len(reqs) = 2
  /\ ~reqs[2].ok
  /\ tar_filename_of(image_name, tag, arch) \in DOMAIN tars
  /\ tars[tar_filename_of(image_name, tag, arch)].complete
  /\ dirs = EmptyMap

====
